---- MODULE Spec2Model ----
(***************************************************************************)
(* Countdown-timer image service (src/app.py).                             *)
(*                                                                         *)
(* Texts are sequences of one-character strings, so that the formatting    *)
(* of a countdown and the parsing of a query parameter are computed        *)
(* character by character.  Instants (datetime values) are integers        *)
(* counting milliseconds since the epoch; epoch timestamps are integers    *)
(* counting seconds.  A rendered badge is represented by the text drawn    *)
(* on it, an encoded GIF by the sequence of its badges: the rasterizer     *)
(* and the encoders are library code.                                      *)
(***************************************************************************)
EXTENDS Integers, Sequences, FiniteSets, TLC

VARIABLES
  clock,       \* the wall clock, in milliseconds since the epoch
  gifCache,    \* lru_cache of generate_gif_cached, least recently used first
  badgeCache,  \* lru_cache of render_frame_cached, least recently used first
  pc,          \* per handler thread: "idle", or "generate" inside the body
  req,         \* per handler thread: the request it handles or handled last
  cacheKey,    \* per handler thread: the cache key of that request
  resp,        \* per handler thread: the response to that request
  built,       \* history: what the body ran for, requests without override,
               \* and what it ran for again
  nreq,        \* history: number of requests received
  nticks,      \* history: number of clock steps
  call         \* a direct call of generate_gif_cached's body (SpecFrames)

vars == <<clock, gifCache, badgeCache, pc, req, cacheKey, resp, built, nreq,
          nticks, call>>

server == <<clock, gifCache, badgeCache, pc, req, cacheKey, resp, built, nreq,
            nticks>>

(***************************************************************************)
(* Program constants.                                                      *)
(***************************************************************************)
CACHE_SECONDS == 60

CTA_FRAMES == 5

En == <<"e","n">>
Et == <<"e","t">>

SUPPORTED_LANG_TXT == {En, Et}

DEFAULT_LANG == En

LANG_TXT ==
  En :> [cta     |-> <<"S","T","A","R","T"," ","B","E","T","T","I","N","G">>,
         started |-> <<"M","A","T","C","H"," ","H","A","S"," ",
                       "S","T","A","R","T","E","D">>,
         over    |-> <<"M","A","T","C","H"," ","I","S"," ","O","V","E","R">>]
  @@
  Et :> [cta     |-> <<"A","L","U","S","T","A"," ",
                       "P","A","N","U","S","T","A","M","I","S","T">>,
         started |-> <<"M","Ä","N","G"," ","O","N"," ",
                       "A","L","A","N","U","D">>,
         over    |-> <<"M","Ä","N","G"," ","O","N"," ","L","Ä","B","I">>]

(***************************************************************************)
(* t(lang, key): nested lookup with the default language as fallback.      *)
(* Both fallback arguments are evaluated before the lookups:               *)
(* LANG_TXT[DEFAULT_LANG][key] raises KeyError for a key the default       *)
(* language does not have.  The raised KeyError is written as a value no   *)
(* text equals: a sequence of one element that is not a character.         *)
(***************************************************************************)
KeyError == <<"KeyError">>

t(lang, key) ==
  LET table == IF lang \in DOMAIN LANG_TXT THEN LANG_TXT[lang]
               ELSE LANG_TXT[DEFAULT_LANG]
  IN  IF key \notin DOMAIN LANG_TXT[DEFAULT_LANG] THEN KeyError
      ELSE IF key \in DOMAIN table THEN table[key]
      ELSE LANG_TXT[DEFAULT_LANG][key]

(***************************************************************************)
(* Python integer formatting.                                              *)
(***************************************************************************)
Abs(n) == IF n < 0 THEN -n ELSE n

DigitChars == <<"0","1","2","3","4","5","6","7","8","9">>

RECURSIVE Digits(_)
\* str(n) of a natural number n
Digits(n) ==
  IF n < 10 THEN <<DigitChars[n + 1]>>
  ELSE Digits(n \div 10) \o <<DigitChars[(n % 10) + 1]>>

RECURSIVE ZeroFill(_, _)
ZeroFill(s, width) == IF Len(s) >= width THEN s ELSE ZeroFill(<<"0">> \o s, width)

\* f"{n:02}": sign first, then zeros up to a total width of two
Format02(n) ==
  IF n < 0 THEN <<"-">> \o ZeroFill(Digits(-n), 1)
  ELSE ZeroFill(Digits(n), 2)

\* ClockText with the hours wrapped at a day
ClockText_HoursWrapped(remaining) ==
  LET h == (remaining \div 3600) % 24
      m == (remaining % 3600) \div 60
      s == remaining % 60
  IN  Format02(h) \o <<":">> \o Format02(m) \o <<":">> \o Format02(s)

\* f"{h:02}:{m:02}:{s:02}" of the loop of generate_gif_cached
ClockText(remaining) ==
  LET h == remaining \div 3600
      m == (remaining % 3600) \div 60
      s == remaining % 60
  IN  Format02(h) \o <<":">> \o Format02(m) \o <<":">> \o Format02(s)

(***************************************************************************)
(* Strings: the str methods and conversions the handlers use.              *)
(***************************************************************************)
IsDigit(c) == \E d \in 1..10 : c = DigitChars[d]

IsDigits(s) == Len(s) > 0 /\ \A k \in 1..Len(s) : IsDigit(s[k])

DigitValue(c) == (CHOOSE d \in 1..10 : DigitChars[d] = c) - 1

RECURSIVE Value(_)
\* the number a sequence of decimal digits denotes
Value(s) ==
  IF Len(s) = 0 THEN 0
  ELSE 10 * Value(SubSeq(s, 1, Len(s) - 1)) + DigitValue(s[Len(s)])

UpperChars == <<"A","B","C","D","E","F","G","H","I","J","K","L","M",
                "N","O","P","Q","R","S","T","U","V","W","X","Y","Z">>

LowerChars == <<"a","b","c","d","e","f","g","h","i","j","k","l","m",
                "n","o","p","q","r","s","t","u","v","w","x","y","z">>

\* str.lower()
Lower(s) ==
  [k \in 1..Len(s) |->
     IF \E u \in 1..26 : UpperChars[u] = s[k]
     THEN LowerChars[CHOOSE u \in 1..26 : UpperChars[u] = s[k]]
     ELSE s[k]]

WhiteSpace == {" ", "\t", "\n", "\r"}

RECURSIVE Strip(_)
\* str.strip()
Strip(s) ==
  IF Len(s) = 0 THEN s
  ELSE IF s[1] \in WhiteSpace THEN Strip(Tail(s))
  ELSE IF s[Len(s)] \in WhiteSpace THEN Strip(SubSeq(s, 1, Len(s) - 1))
  ELSE s

RECURSIVE ReplaceZ(_)
\* end.replace("Z", "+00:00"): every occurrence
ReplaceZ(s) ==
  IF Len(s) = 0 THEN s
  ELSE (IF s[1] = "Z" THEN <<"+","0","0",":","0","0">> ELSE <<s[1]>>)
         \o ReplaceZ(Tail(s))

(* int(text) of a str: surrounding whitespace is dropped, one sign is       *)
(* allowed, then decimal digits with single underscores between digits;    *)
(* anything else raises ValueError.                                        *)
IntBody(s) ==
  LET u == Strip(s)
  IN  IF Len(u) > 0 /\ u[1] \in {"+", "-"} THEN Tail(u) ELSE u

IntParses(s) ==
  LET b == IntBody(s)
  IN  /\ Len(b) > 0
      /\ IsDigit(b[1]) /\ IsDigit(b[Len(b)])
      /\ \A k \in 1..Len(b) :
           \/ IsDigit(b[k])
           \/ b[k] = "_" /\ IsDigit(b[k - 1]) /\ IsDigit(b[k + 1])

IntValue(s) ==
  LET u == Strip(s)
      b == SelectSeq(IntBody(s), IsDigit)
  IN  IF u[1] = "-" THEN -Value(b) ELSE Value(b)

RECURSIVE DropZeros(_)
DropZeros(s) == IF Len(s) > 1 /\ s[1] = "0" THEN DropZeros(Tail(s)) ELSE s

(* An integer of 13 or more significant digits is beyond every timestamp    *)
(* datetime.fromtimestamp accepts (years 1 to 9999: 12 digits at most); it  *)
(* raises OverflowError or ValueError for it.                               *)
BeyondDatetime(s) ==
  IntParses(s) /\ Len(DropZeros(SelectSeq(IntBody(s), IsDigit))) >= 13

(***************************************************************************)
(* Query parameters and datetime values.                                   *)
(* request.args.get(name) is None or a str.  A datetime is its instant in  *)
(* milliseconds since the epoch and whether it carries a UTC offset; a     *)
(* datetime without offset is read as local time, the server's zone being  *)
(* UTC.                                                                    *)
(***************************************************************************)
None == [given |-> FALSE]

Str(s) == [given |-> TRUE, s |-> s]

\* the truth value of an optional str: None and "" are false
Truthy(p) == p.given /\ p.s # <<>>

ValueError == [error |-> "ValueError"]

IsError(x) == "error" \in DOMAIN x

DateTime(ms, aware) == [ms |-> ms, aware |-> aware]

(* datetime.fromisoformat, for the texts YYYY-MM-DD and                     *)
(* YYYY-MM-DD?HH:MM:SS[.fff][(+|-)HH:MM], which every Python 3 release     *)
(* reads the same way; any other text is taken to raise ValueError.        *)
IsLeap(y) == (y % 4 = 0 /\ y % 100 # 0) \/ y % 400 = 0

DaysInMonth(y, m) ==
  IF m = 2 THEN (IF IsLeap(y) THEN 29 ELSE 28)
  ELSE IF m \in {4, 6, 9, 11} THEN 30 ELSE 31

\* days from 1970-01-01 to the civil date y-m-d
DaysFromCivil(y, m, d) ==
  LET yy  == IF m <= 2 THEN y - 1 ELSE y
      era == yy \div 400
      yoe == yy - era * 400
      mp  == IF m > 2 THEN m - 3 ELSE m + 9
      doy == (153 * mp + 2) \div 5 + d - 1
      doe == yoe * 365 + yoe \div 4 - yoe \div 100 + doy
  IN  era * 146097 + doe - 719468

Num(s, from, to) == Value(SubSeq(s, from, to))

DateOk(s) ==
  /\ Len(s) >= 10
  /\ IsDigits(SubSeq(s, 1, 4)) /\ s[5] = "-"
  /\ IsDigits(SubSeq(s, 6, 7)) /\ s[8] = "-"
  /\ IsDigits(SubSeq(s, 9, 10))
  /\ Num(s, 1, 4) >= 1
  /\ Num(s, 6, 7) \in 1..12
  /\ Num(s, 9, 10) >= 1
  /\ Num(s, 9, 10) <= DaysInMonth(Num(s, 1, 4), Num(s, 6, 7))

\* HH:MM at position p
HourMinuteOk(s, p) ==
  /\ Len(s) >= p + 4
  /\ IsDigits(SubSeq(s, p, p + 1)) /\ s[p + 2] = ":"
  /\ IsDigits(SubSeq(s, p + 3, p + 4))
  /\ Num(s, p, p + 1) < 24 /\ Num(s, p + 3, p + 4) < 60

TimeOk(s) ==
  /\ Len(s) >= 19
  /\ HourMinuteOk(s, 12)
  /\ s[17] = ":" /\ IsDigits(SubSeq(s, 18, 19)) /\ Num(s, 18, 19) < 60

HasFraction(s) == Len(s) >= 20 /\ s[20] = "."

\* where the UTC offset starts, if there is one
OffsetAt(s) == IF HasFraction(s) THEN 24 ELSE 20

TailOk(s) ==
  /\ HasFraction(s) => (Len(s) >= 23 /\ IsDigits(SubSeq(s, 21, 23)))
  /\ \/ Len(s) = OffsetAt(s) - 1
     \/ /\ Len(s) = OffsetAt(s) + 5
        /\ s[OffsetAt(s)] \in {"+", "-"}
        /\ HourMinuteOk(s, OffsetAt(s) + 1)

IsoTextOk(s) ==
  DateOk(s) /\ (Len(s) = 10 \/ (TimeOk(s) /\ TailOk(s)))

IsoValue(s) ==
  LET days == DaysFromCivil(Num(s, 1, 4), Num(s, 6, 7), Num(s, 9, 10))
  IN  IF Len(s) = 10 THEN DateTime(days * 86400000, FALSE)
      ELSE
        LET wall   == days * 86400000 + Num(s, 12, 13) * 3600000
                        + Num(s, 15, 16) * 60000 + Num(s, 18, 19) * 1000
                        + (IF HasFraction(s) THEN Num(s, 21, 23) ELSE 0)
            p      == OffsetAt(s)
            aware  == Len(s) >= p
            offset == IF ~aware THEN 0
                      ELSE (IF s[p] = "-" THEN -1 ELSE 1)
                             * (Num(s, p + 1, p + 2) * 3600000
                                  + Num(s, p + 4, p + 5) * 60000)
        IN  DateTime(wall - offset, aware)

\* FromIsoFormat reading any unreadable text as the epoch
FromIsoFormat_Lenient(s) ==
  IF IsoTextOk(s) THEN IsoValue(s) ELSE DateTime(0, TRUE)

FromIsoFormat(s) == IF IsoTextOk(s) THEN IsoValue(s) ELSE ValueError

\* int(x) of a float given in thousandths: truncation towards zero
IntOfMillis(ms) == IF ms >= 0 THEN ms \div 1000 ELSE -((-ms) \div 1000)

\* int(dt.timestamp())
IntTimestamp(dt) == IntOfMillis(dt.ms)

(***************************************************************************)
(* generate_gif_cached: the text of frame i, and the frame list.           *)
(* datetime.fromtimestamp(x, utc) is x * 1000 in milliseconds.             *)
(***************************************************************************)
FromTimestamp(ts) == ts * 1000

\* int(delta.total_seconds())
IntSeconds(deltaMs) == IntOfMillis(deltaMs)

\* TakesOverBranch taken from exactly one hour after the deadline on
TakesOverBranch_AtTheHour(end_timestamp, rounded_timestamp) ==
  FromTimestamp(rounded_timestamp) >= FromTimestamp(end_timestamp) + 3600 * 1000

TakesOverBranch(end_timestamp, rounded_timestamp) ==
  FromTimestamp(rounded_timestamp) > FromTimestamp(end_timestamp) + 3600 * 1000

\* FrameNow without the per-frame second
FrameNow_Frozen(now, i) == now

\* FrameNow stepping back in time
FrameNow_Backwards(now, i) == now - i * 1000

FrameNow(now, i) == now + i * 1000

\* FrameText with the hour after the deadline ending one second early
FrameText_StrictHour(end_timestamp, rounded_timestamp, lang, i) ==
  LET remaining == IntSeconds(FromTimestamp(end_timestamp)
                              - FrameNow(FromTimestamp(rounded_timestamp), i))
  IN  IF remaining <= 0 /\ Abs(remaining) < 3600 THEN t(lang, "started")
      ELSE IF remaining <= -3600 THEN t(lang, "over")
      ELSE IF remaining > 0 /\ i >= (60 - CTA_FRAMES) THEN t(lang, "cta")
      ELSE ClockText(remaining)

\* FrameText with the call to action starting one frame late
FrameText_LateCta(end_timestamp, rounded_timestamp, lang, i) ==
  LET remaining == IntSeconds(FromTimestamp(end_timestamp)
                              - FrameNow(FromTimestamp(rounded_timestamp), i))
  IN  IF remaining <= 0 /\ Abs(remaining) <= 3600 THEN t(lang, "started")
      ELSE IF remaining < -3600 THEN t(lang, "over")
      ELSE IF remaining > 0 /\ i > (60 - CTA_FRAMES) THEN t(lang, "cta")
      ELSE ClockText(remaining)

\* FrameText with the call to action starting one frame early
FrameText_EarlyCta(end_timestamp, rounded_timestamp, lang, i) ==
  LET remaining == IntSeconds(FromTimestamp(end_timestamp)
                              - FrameNow(FromTimestamp(rounded_timestamp), i))
  IN  IF remaining <= 0 /\ Abs(remaining) <= 3600 THEN t(lang, "started")
      ELSE IF remaining < -3600 THEN t(lang, "over")
      ELSE IF remaining > 0 /\ i >= (60 - CTA_FRAMES) - 1 THEN t(lang, "cta")
      ELSE ClockText(remaining)

\* FrameText with the call to action tested before the deadline
FrameText_CtaFirst(end_timestamp, rounded_timestamp, lang, i) ==
  LET remaining == IntSeconds(FromTimestamp(end_timestamp)
                              - FrameNow(FromTimestamp(rounded_timestamp), i))
  IN  IF i >= (60 - CTA_FRAMES) /\ remaining > -3600 THEN t(lang, "cta")
      ELSE IF remaining <= 0 /\ Abs(remaining) <= 3600 THEN t(lang, "started")
      ELSE IF remaining < -3600 THEN t(lang, "over")
      ELSE ClockText(remaining)

FrameText(end_timestamp, rounded_timestamp, lang, i) ==
  LET end_time  == FromTimestamp(end_timestamp)
      now       == FromTimestamp(rounded_timestamp)
      frame_now == FrameNow(now, i)
      remaining == IntSeconds(end_time - frame_now)
  IN  IF remaining <= 0 /\ Abs(remaining) <= 3600 THEN t(lang, "started")
      ELSE IF remaining < -3600 THEN t(lang, "over")
      ELSE IF remaining > 0 /\ i >= (60 - CTA_FRAMES) THEN t(lang, "cta")
      ELSE ClockText(remaining)

\* the loop of generate_gif_cached: the text of each of its 60 frames
FrameLoop(end_timestamp, rounded_timestamp, lang) ==
  [k \in 1..60 |-> FrameText(end_timestamp, rounded_timestamp, lang, k - 1)]

\* the texts generate_gif_cached hands to frame_from_cache, in order
FrameTexts(end_timestamp, rounded_timestamp, lang) ==
  IF TakesOverBranch(end_timestamp, rounded_timestamp)
  THEN <<t(lang, "over")>>
  ELSE FrameLoop(end_timestamp, rounded_timestamp, lang)

(***************************************************************************)
(* functools.lru_cache: a sequence of entries, least recently used first.  *)
(* A hit moves the entry to the end; a miss runs the function outside the  *)
(* cache's lock and then stores the result, dropping the first entry when  *)
(* the cache is full, unless the key was stored in the meantime.  An entry *)
(* of the animation cache also records, as history, the request that made  *)
(* it (by, at).                                                            *)
(***************************************************************************)
LruHas(cache, k) == \E j \in 1..Len(cache) : cache[j].key = k

LruIndex(cache, k) == CHOOSE j \in 1..Len(cache) : cache[j].key = k

\* LruValue handing out the oldest entry's value
LruValue_Oldest(cache, k) == cache[1].value

LruValue(cache, k) == cache[LruIndex(cache, k)].value

LruWithout(cache, j) == SubSeq(cache, 1, j - 1) \o SubSeq(cache, j + 1, Len(cache))

LruTouch(cache, k) ==
  LruWithout(cache, LruIndex(cache, k)) \o <<cache[LruIndex(cache, k)]>>

\* LruStore without the look for an entry stored in the meantime
LruStore_Unchecked(cache, entry, maxsize) ==
  IF Len(cache) >= maxsize THEN Append(Tail(cache), entry)
  ELSE Append(cache, entry)

LruStore(cache, entry, maxsize) ==
  IF LruHas(cache, entry.key) THEN cache
  ELSE IF Len(cache) >= maxsize THEN Append(Tail(cache), entry)
  ELSE Append(cache, entry)

\* maxsize of the two caches (256 and 512 in the source), scaled down
GifCacheMax == 2

BadgeCacheMax == 3

(***************************************************************************)
(* pick_lang.  bestMatch is what accept_languages.best_match returns:      *)
(* None or a supported tag.                                                *)
(***************************************************************************)
\* pick_lang asking the header before the parameter
pick_lang_HeaderFirst(langArg, bestMatch) ==
  LET lang == Strip(Lower(IF Truthy(langArg) THEN langArg.s ELSE <<>>))
  IN  IF Truthy(bestMatch) THEN bestMatch.s
      ELSE IF lang \in SUPPORTED_LANG_TXT THEN lang
      ELSE DEFAULT_LANG

pick_lang(langArg, bestMatch) ==
  LET lang == Strip(Lower(IF Truthy(langArg) THEN langArg.s ELSE <<>>))
  IN  IF lang \in SUPPORTED_LANG_TXT THEN lang
      ELSE IF Truthy(bestMatch) THEN bestMatch.s
      ELSE DEFAULT_LANG

(***************************************************************************)
(* The badge rasterizer and its cache.  The badge is determined by the     *)
(* text drawn on it; lang is not used by the drawing code.                 *)
(***************************************************************************)
render_timer_frame(text, lang) == [drawn |-> text]

\* render_frame_cached(lang, text) on the badge cache: the cache afterwards
BadgeCacheAfter(cache, lang, text) ==
  IF LruHas(cache, <<lang, text>>) THEN LruTouch(cache, <<lang, text>>)
  ELSE LruStore(cache, [key |-> <<lang, text>>,
                        value |-> render_timer_frame(text, lang)],
                BadgeCacheMax)

\* render_frame_cached(lang, text) on the badge cache: the bytes returned
render_frame_cached(cache, lang, text) ==
  IF LruHas(cache, <<lang, text>>) THEN LruValue(cache, <<lang, text>>)
  ELSE render_timer_frame(text, lang)

RECURSIVE RenderFrames(_, _, _, _)
\* frame_from_cache for each text in turn: the frames and the cache after
RenderFrames(cache, lang, texts, frames) ==
  IF texts = <<>> THEN [frames |-> frames, cache |-> cache]
  ELSE RenderFrames(BadgeCacheAfter(cache, lang, Head(texts)), lang,
                    Tail(texts),
                    Append(frames, render_frame_cached(cache, lang, Head(texts))))

\* the body of generate_gif_cached, run on the badge cache
GenerateGifBody(cache, end_timestamp, rounded_timestamp, lang) ==
  RenderFrames(cache, lang,
               FrameTexts(end_timestamp, rounded_timestamp, lang), <<>>)

(***************************************************************************)
(* get_timer_text and get_cache_key.                                       *)
(***************************************************************************)
\* get_timer_text with the hour after the deadline ending one second early
get_timer_text_StrictHour(end_time, now, mode, lang) ==
  LET remaining == IntSeconds(end_time.ms - now.ms)
  IN  IF remaining > 0
      THEN IF mode = "png"
           THEN LET minutes == remaining \div 60
                IN  Format02(minutes \div 60) \o <<":">> \o Format02(minutes % 60)
           ELSE ClockText(remaining)
      ELSE IF Abs(remaining) < 3600 THEN t(lang, "started")
      ELSE t(lang, "over")

get_timer_text(end_time, now, mode, lang) ==
  LET remaining == IntSeconds(end_time.ms - now.ms)
  IN  IF remaining > 0
      THEN IF mode = "png"
           THEN LET minutes == remaining \div 60
                IN  Format02(minutes \div 60) \o <<":">> \o Format02(minutes % 60)
           ELSE ClockText(remaining)
      ELSE IF Abs(remaining) <= 3600 THEN t(lang, "started")
      ELSE t(lang, "over")

\* Bucketed without the quantization: the current second
Bucketed_Seconds(nowMs) == nowMs \div 1000

\* Bucketed rounding to the nearest bucket
Bucketed_Nearest(nowMs) ==
  ((nowMs + (CACHE_SECONDS * 1000) \div 2) \div (CACHE_SECONDS * 1000))
    * CACHE_SECONDS

\* Bucketed rounding up to the next bucket
Bucketed_Up(nowMs) == ((nowMs \div (CACHE_SECONDS * 1000)) + 1) * CACHE_SECONDS

\* int(datetime.now(utc).timestamp() // CACHE_SECONDS) * CACHE_SECONDS
Bucketed(nowMs) == (nowMs \div (CACHE_SECONDS * 1000)) * CACHE_SECONDS

\* get_cache_key without the fallback: an unparsable override counts as 0
get_cache_key_NoFallback(end_time, t_param, lang, nowMs) ==
  LET rounded == IF Truthy(t_param)
                 THEN (IF IntParses(t_param.s) THEN IntValue(t_param.s) ELSE 0)
                 ELSE Bucketed(nowMs)
  IN  <<IntTimestamp(end_time), rounded, lang>>

\* get_cache_key with a key that leaves the language out
get_cache_key_NoLang(end_time, t_param, lang, nowMs) ==
  LET rounded == IF Truthy(t_param)
                 THEN (IF IntParses(t_param.s) THEN IntValue(t_param.s)
                       ELSE Bucketed(nowMs))
                 ELSE Bucketed(nowMs)
  IN  <<IntTimestamp(end_time), rounded, DEFAULT_LANG>>

get_cache_key(end_time, t_param, lang, nowMs) ==
  LET rounded == IF Truthy(t_param)
                 THEN (IF IntParses(t_param.s) THEN IntValue(t_param.s)
                       ELSE Bucketed(nowMs))
                 ELSE Bucketed(nowMs)
  IN  <<IntTimestamp(end_time), rounded, lang>>

(***************************************************************************)
(* The request handlers.  Each handler thread serves one request at a      *)
(* time.  timer_gif runs up to the cache lookup in one step; on a miss the *)
(* body and the store into the cache are a second step, so that two        *)
(* threads can both miss on the same key.                                  *)
(***************************************************************************)
Threads == {"a", "b"}

NoRequest ==
  [path |-> "", end |-> None, lang |-> None, best |-> None, t |-> None, at |-> 0]

Response(status, text, mimetype, frames, calls, hit) ==
  [status |-> status, text |-> text, mimetype |-> mimetype,
   frames |-> frames, calls |-> calls, hit |-> hit]

NoResponse == Response(0, "", "", <<>>, {}, FALSE)

\* history: what a request without override asks for: the deadline, the
\* language and the 60-second bucket of its wall-clock time
AskedFor(r) ==
  IF Truthy(r.t) THEN [override |-> r.t.s]
  ELSE [end |-> FromIsoFormat(ReplaceZ(r.end.s)).ms,
        lang |-> pick_lang(r.lang, r.best),
        bucket |-> r.at \div 60000]

\* the server after start-up: empty caches, idle handler threads
ServerIdle ==
  /\ clock = 7200000
  /\ gifCache = <<>>
  /\ badgeCache = <<>>
  /\ pc = [th \in Threads |-> "idle"]
  /\ req = [th \in Threads |-> NoRequest]
  /\ cacheKey = [th \in Threads |-> <<>>]
  /\ resp = [th \in Threads |-> NoResponse]
  /\ built = {}
  /\ nreq = 0
  /\ nticks = 0

NoCall ==
  [end_timestamp |-> 0, rounded_timestamp |-> 0, lang |-> En,
   frames |-> <<>>, loop |-> <<>>]

\* a request goes to a free handler thread; the threads being alike, to "a"
\* whenever "a" is free
Accepts(th) == pc[th] = "idle" /\ (th = "a" \/ pc["a"] # "idle")

\* the request is answered without touching the caches
Answer(th, r, response) ==
  /\ req' = [req EXCEPT ![th] = r]
  /\ resp' = [resp EXCEPT ![th] = response]
  /\ cacheKey' = [cacheKey EXCEPT ![th] = <<>>]
  /\ UNCHANGED <<pc, gifCache, badgeCache, built>>

\* timer_gif, lines 203-216 up to the lookup in generate_gif_cached's cache
TimerGif(th, end, langArg, bestMatch, t_param, maxRequests) ==
  /\ Accepts(th)
  /\ nreq < maxRequests
  /\ nreq' = nreq + 1
  /\ UNCHANGED <<clock, nticks, call>>
  /\ LET r == [path |-> "/timer.gif", end |-> end, lang |-> langArg,
               best |-> bestMatch, t |-> t_param, at |-> clock]
     IN
     IF ~Truthy(end)
     THEN Answer(th, r, Response(400, "Missing 'end' parameter", "text/html",
                                 <<>>, {}, FALSE))
     ELSE
       LET lang     == pick_lang(langArg, bestMatch)
           end_time == FromIsoFormat(ReplaceZ(end.s))
       IN
       IF IsError(end_time)
       THEN Answer(th, r, Response(400, "Invalid end parameter", "text/html",
                                   <<>>, {"pick_lang"}, FALSE))
       ELSE IF Truthy(t_param) /\ BeyondDatetime(t_param.s)
       THEN \* line 151: fromtimestamp raises inside generate_gif_cached; the
            \* key's second component is kept as the digits of the override
            /\ req' = [req EXCEPT ![th] = r]
            /\ cacheKey' = [cacheKey EXCEPT ![th] =
                 <<IntTimestamp(end_time), Strip(t_param.s), lang>>]
            /\ resp' = [resp EXCEPT ![th] =
                 Response(500, "OverflowError", "text/html", <<>>,
                          {"pick_lang", "get_cache_key", "generate_gif_cached"},
                          FALSE)]
            /\ UNCHANGED <<pc, gifCache, badgeCache, built>>
       ELSE
         LET k == get_cache_key(end_time, t_param, lang, clock)
         IN  /\ req' = [req EXCEPT ![th] = r]
             /\ cacheKey' = [cacheKey EXCEPT ![th] = k]
             /\ UNCHANGED <<badgeCache, built>>
             /\ IF LruHas(gifCache, k)
                THEN /\ gifCache' = LruTouch(gifCache, k)
                     /\ resp' = [resp EXCEPT ![th] =
                          Response(200, "", "image/gif", LruValue(gifCache, k),
                                   {"pick_lang", "get_cache_key"}, TRUE)]
                     /\ UNCHANGED pc
                ELSE /\ pc' = [pc EXCEPT ![th] = "generate"]
                     /\ resp' = [resp EXCEPT ![th] = NoResponse]
                     /\ UNCHANGED gifCache

\* on a miss: the body of generate_gif_cached, the store, lines 218-223
GenerateGif(th) ==
  /\ pc[th] = "generate"
  /\ LET k    == cacheKey[th]
         body == GenerateGifBody(badgeCache, k[1], k[2], k[3])
         r    == req[th]
     IN  /\ badgeCache' = body.cache
         /\ gifCache' = LruStore(gifCache,
                                 [key |-> k, value |-> body.frames,
                                  by |-> AskedFor(r), at |-> r.at],
                                 GifCacheMax)
         /\ resp' = [resp EXCEPT ![th] =
              Response(200, "", "image/gif", body.frames,
                       {"pick_lang", "get_cache_key", "generate_gif_cached",
                        "render_frame_cached"}, FALSE)]
         /\ built' = IF Truthy(r.t) THEN built
                     ELSE IF AskedFor(r) \in built
                     THEN built \cup {[again |-> AskedFor(r)]}
                     ELSE built \cup {AskedFor(r)}
  /\ pc' = [pc EXCEPT ![th] = "idle"]
  /\ UNCHANGED <<clock, req, cacheKey, nreq, nticks, call>>

\* timer_png, lines 231-254
TimerPng(th, end, langArg, bestMatch, maxRequests) ==
  /\ Accepts(th)
  /\ nreq < maxRequests
  /\ nreq' = nreq + 1
  /\ UNCHANGED <<clock, nticks, call>>
  /\ LET r == [path |-> "/timer.png", end |-> end, lang |-> langArg,
               best |-> bestMatch, t |-> None, at |-> clock]
     IN
     IF ~Truthy(end)
     THEN Answer(th, r, Response(400, "Missing 'end' parameter", "text/html",
                                 <<>>, {}, FALSE))
     ELSE
       LET lang     == pick_lang(langArg, bestMatch)
           end_time == FromIsoFormat(ReplaceZ(end.s))
           now      == DateTime(clock, TRUE)
       IN
       IF IsError(end_time)
       THEN Answer(th, r, Response(400, "Invalid end parameter", "text/html",
                                   <<>>, {"pick_lang"}, FALSE))
       ELSE IF ~end_time.aware
       THEN \* end_time - now of a naive and an aware datetime: TypeError
            Answer(th, r, Response(500, "TypeError", "text/html", <<>>,
                                   {"pick_lang", "get_timer_text"}, FALSE))
       ELSE Answer(th, r,
              Response(200, "", "image/png",
                       <<render_timer_frame(
                           get_timer_text(end_time, now, "png", lang), lang)>>,
                       {"pick_lang", "get_timer_text", "render_timer_frame"},
                       FALSE))

\* time passes
Tick(step, maxTicks) ==
  /\ nticks < maxTicks
  /\ nticks' = nticks + 1
  /\ clock' = clock + step
  /\ UNCHANGED <<gifCache, badgeCache, pc, req, cacheKey, resp, built, nreq, call>>

(***************************************************************************)
(* Requests.  A client writes a deadline of 1 January 1970 as ISO text.    *)
(***************************************************************************)
IsoText(ms, zone) ==
  <<"1","9","7","0","-","0","1","-","0","1","T">>
    \o Format02(ms \div 3600000) \o <<":">>
    \o Format02((ms \div 60000) % 60) \o <<":">>
    \o Format02((ms \div 1000) % 60)
    \o (IF ms % 1000 = 0 THEN <<>>
        ELSE <<".">> \o ZeroFill(Digits(ms % 1000), 3))
    \o zone

Zulu == <<"Z">>

PlusZero == <<"+","0","0",":","0","0">>

\* a language parameter and a header match: 'en' by default, 'et' by parameter
LangChoices == {<<None, None>>, <<Str(<<"E","T"," ">>), Str(En)>>}

(***************************************************************************)
(* The server under a workload of GIF requests for one deadline, with      *)
(* concurrent handler threads; the override names the next bucket, so that *)
(* four different keys can be asked for within one bucket.                 *)
(***************************************************************************)
MaxRequests == 4

MaxTicks == 1

TickSteps == {1000, 60000}

Ends == {None, Str(<<"s","o","o","n">>), Str(IsoText(7203000, Zulu))}

Overrides == {None, Str(<<"7","2","6","0">>)}

Init == ServerIdle /\ call = NoCall

Next ==
  \/ \E th \in Threads, end \in Ends, l \in LangChoices, tp \in Overrides :
       TimerGif(th, end, l[1], l[2], tp, MaxRequests)
  \/ \E th \in Threads : GenerateGif(th)
  \/ \E step \in TickSteps : Tick(step, MaxTicks)

Spec == Init /\ [][Next]_vars

(***************************************************************************)
(* The server under single requests of every kind: deadlines relative to   *)
(* the wall clock, overrides of every shape.                               *)
(***************************************************************************)
MaxProbes == 1

MaxClientTicks == 2

ClientTickSteps == {500, 30000}

\* seconds from the request's wall-clock time to the deadline
ClientOffsets == {3661, -10, -3700, 3}

Unreadable ==
  {<<"s","o","o","n">>,
   <<"1","9","7","0","-","0","1","-","0","1","T","2","5",":","0","0",":","0","0","Z">>}

\* 1969-12-31T23:59:59.500Z
HalfSecondBeforeEpoch ==
  <<"1","9","6","9","-","1","2","-","3","1","T",
    "2","3",":","5","9",":","5","9",".","5","0","0","Z">>

ClientEnds(now) ==
  {None, Str(<<>>)} \cup {Str(u) : u \in Unreadable}
    \cup {Str(IsoText(now + d * 1000, Zulu)) : d \in ClientOffsets}
    \cup {Str(IsoText(now + 3661000, PlusZero)),
          Str(IsoText(now + 3661000, <<>>)),
          Str(IsoText(now - 3600500, Zulu)),
          Str(IsoText(now + 3661500, Zulu)),
          Str(HalfSecondBeforeEpoch)}

ClientOverrides ==
  {None, Str(<<>>), Str(<<"a","b","c">>), Str(<<"1",".","5">>),
   Str(<<"7","2","0","0">>), Str(<<" ","7","_","2","6","0"," ">>),
   Str(<<"-","5">>), Str(<<"3","6","0","0">>),
   Str(<<"9","9","9","9","9","9","9","9","9","9","9","9","9">>)}

NextClient ==
  \/ \E th \in Threads, end \in ClientEnds(clock), l \in LangChoices,
        tp \in ClientOverrides :
       TimerGif(th, end, l[1], l[2], tp, MaxProbes)
  \/ \E th \in Threads : GenerateGif(th)
  \/ \E th \in Threads, end \in ClientEnds(clock), l \in LangChoices :
       TimerPng(th, end, l[1], l[2], MaxProbes)
  \/ \E step \in ClientTickSteps : Tick(step, MaxClientTicks)

SpecClient == Init /\ [][NextClient]_vars

(***************************************************************************)
(* Direct calls of generate_gif_cached's body, and of its loop alone, on   *)
(* bounded arguments.  The end timestamps lie within Window seconds of     *)
(* the points where the selected text changes.                             *)
(***************************************************************************)
Window == 62

Centres == {-3600, 0, 3600, 360000}

Offsets == UNION {(c - Window)..(c + Window) : c \in Centres}

RoundedStamps == {0, 7200, 7261}

InitFrames ==
  /\ ServerIdle
  /\ call \in [end_timestamp : {r + d : r \in RoundedStamps, d \in Offsets},
               rounded_timestamp : RoundedStamps,
               lang : SUPPORTED_LANG_TXT,
               frames : {<<>>},
               loop : {<<>>}]

\* the whole body, lines 151-198, starting from an empty badge cache
Generate ==
  /\ call.frames = <<>>
  /\ LET body == GenerateGifBody(badgeCache, call.end_timestamp,
                                 call.rounded_timestamp, call.lang)
     IN  /\ call' = [call EXCEPT !.frames = body.frames]
         /\ badgeCache' = body.cache
  /\ UNCHANGED <<clock, gifCache, pc, req, cacheKey, resp, built, nreq, nticks>>

\* the loop's text selection alone, lines 168-184
RunLoop ==
  /\ UNCHANGED server
  /\ call.loop = <<>>
  /\ call' = [call EXCEPT !.loop = FrameLoop(call.end_timestamp,
                                     call.rounded_timestamp, call.lang)]

NextFrames == Generate \/ RunLoop

SpecFrames == InitFrames /\ [][NextFrames]_vars

(***************************************************************************)
(* Direct calls of get_timer_text, in either mode, and of the loop's text  *)
(* selection for one frame, on the same deadline and instant.              *)
(***************************************************************************)
FrameIndexes == {0, 54, 55, 59}

InitTexts ==
  /\ ServerIdle
  /\ call \in [end_timestamp : {7200 + d : d \in Offsets},
               rounded_timestamp : {7200},
               lang : SUPPORTED_LANG_TXT,
               i : FrameIndexes,
               mode : {"gif", "png"},
               text : {<<>>},
               shown : {<<>>}]

\* get_timer_text(end_time, now + i s, mode, lang), lines 116-134
GetTimerText ==
  /\ call.text = <<>>
  /\ call' = [call EXCEPT !.text =
       get_timer_text(DateTime(FromTimestamp(call.end_timestamp), TRUE),
                      DateTime(FrameNow(FromTimestamp(call.rounded_timestamp),
                                        call.i), TRUE),
                      call.mode, call.lang)]
  /\ UNCHANGED server

\* the loop's text for frame i, lines 170-184
SelectFrameText ==
  /\ call.shown = <<>>
  /\ call' = [call EXCEPT !.shown =
       FrameText(call.end_timestamp, call.rounded_timestamp, call.lang, call.i)]
  /\ UNCHANGED server

NextTexts == GetTimerText \/ SelectFrameText

SpecTexts == InitTexts /\ [][NextTexts]_vars

(***************************************************************************)
(* Direct calls of pick_lang and of t.  The lang parameter is absent,      *)
(* empty, a supported tag in some spelling, or something else; the header  *)
(* match is None or a supported tag; t is asked for the three keys and     *)
(* for a key no language has.                                              *)
(***************************************************************************)
LangParams ==
  {None, Str(<<>>), Str(En), Str(Et), Str(<<"E","T"," ">>), Str(<<" ","E","n">>),
   Str(<<"f","r">>), Str(<<"e","n","-","U","S">>), Str(<<"e"," ","t">>)}

HeaderMatches == {None, Str(En), Str(Et)}

TableLangs == {En, Et, <<"f","r">>, <<"E","T">>, <<>>}

TableKeys == {"cta", "started", "over", "paused"}

InitLang ==
  /\ ServerIdle
  /\ call \in [langArg : LangParams, best : HeaderMatches,
               lang : TableLangs, key : TableKeys,
               picked : {None}, text : {None}]

\* pick_lang(), lines 34-40
PickLang ==
  /\ call.picked = None
  /\ call' = [call EXCEPT !.picked = Str(pick_lang(call.langArg, call.best))]
  /\ UNCHANGED server

\* t(lang, key), lines 43-44
Lookup ==
  /\ call.text = None
  /\ call' = [call EXCEPT !.text = Str(t(call.lang, call.key))]
  /\ UNCHANGED server

NextLang == PickLang \/ Lookup

SpecLang == InitLang /\ [][NextLang]_vars

(***************************************************************************)
(* Reading a frame text back, for the properties below.                    *)
(***************************************************************************)
RECURSIVE Fields(_)
\* the text split at its colons
Fields(s) ==
  IF \A k \in 1..Len(s) : s[k] # ":" THEN <<s>>
  ELSE LET c == CHOOSE k \in 1..Len(s) :
                  s[k] = ":" /\ \A j \in 1..(k - 1) : s[j] # ":"
       IN  <<SubSeq(s, 1, c - 1)>> \o Fields(SubSeq(s, c + 1, Len(s)))

\* a text of three digit fields HH:MM:SS
IsClock(text) ==
  LET f == Fields(text)
  IN  Len(f) = 3 /\ \A k \in 1..3 : IsDigits(f[k])

Started == t(call.lang, "started")
Over == t(call.lang, "over")
Cta == t(call.lang, "cta")

\* deadline - instant for the frame at index i of the call
Remaining(i) == call.end_timestamp - (call.rounded_timestamp + i)

LoopRan == call.loop # <<>>
BodyRan == call.frames # <<>>
SixtyFrames == Len(call.frames) = 60

\* C1: in the loop, every frame index 0..59 selects 'started' exactly when
\* -3600 <= remaining <= 0, 'over' exactly when remaining < -3600, and
\* neither of the two when remaining > 0.
C1_StateTextByRemaining ==
  LoopRan =>
    \A i \in 0..59 :
      LET text == call.loop[i + 1]
          rem  == Remaining(i)
      IN  /\ (text = Started) <=> (-3600 <= rem /\ rem <= 0)
          /\ (text = Over) <=> (rem < -3600)
          /\ rem > 0 => text \notin {Started, Over}

\* a loop whose frame 0 is the last 'started' second and frame 1 the first
\* 'over' second
C1_Witness ==
  /\ LoopRan
  /\ Remaining(0) = -3600 /\ call.loop[1] = Started
  /\ Remaining(1) = -3601 /\ call.loop[2] = Over

\* C2: in the 60-frame animation the frame at index i shows the call to
\* action exactly when i >= 55 and remaining > 0; below 55 never; with
\* remaining <= 0 the started/over text is shown instead.
C2_CtaWindow ==
  (BodyRan /\ SixtyFrames) =>
    \A i \in 0..59 :
      LET text == call.frames[i + 1].drawn
          rem  == Remaining(i)
      IN  /\ (text = Cta) <=> (i >= 55 /\ rem > 0)
          /\ rem <= 0 => text \in {Started, Over}

\* an animation whose deadline falls inside the last five frames
C2_Witness ==
  /\ BodyRan /\ SixtyFrames
  /\ Remaining(56) = 1 /\ call.frames[57].drawn = Cta
  /\ Remaining(57) = 0 /\ call.frames[58].drawn = Started
  /\ IsClock(call.frames[55].drawn)

\* C3 as stated: the frame at index 54 shows the call to action whenever
\* remaining > 0, and the state text whenever remaining <= 0.
C3_Original ==
  (BodyRan /\ SixtyFrames) =>
    /\ Remaining(54) > 0 => call.frames[55].drawn = Cta
    /\ Remaining(54) <= 0 => call.frames[55].drawn \in {Started, Over}

\* C3 amended: the frame at index 54 shows the countdown HH:MM:SS (not the
\* call to action) whenever remaining > 0; the first frame that shows the
\* call to action is the one at index 55; with remaining <= 0 the frame at
\* index 54 shows the state text.
C3_Frame54IsCountdown ==
  (BodyRan /\ SixtyFrames) =>
    /\ Remaining(54) > 0 => (call.frames[55].drawn # Cta /\ IsClock(call.frames[55].drawn))
    /\ Remaining(55) > 0 => call.frames[56].drawn = Cta
    /\ Remaining(54) <= 0 => call.frames[55].drawn \in {Started, Over}

C3_Witness ==
  /\ BodyRan /\ SixtyFrames
  /\ Remaining(54) = 6
  /\ call.frames[55].drawn = <<"0","0",":","0","0",":","0","6">>
  /\ call.frames[56].drawn = Cta

\* the text the specification selects for a frame: index i, remaining rem
ExpectedText(rem, i) ==
  IF rem < -3600 THEN Over
  ELSE IF rem <= 0 THEN Started
  ELSE IF i >= 55 THEN Cta
  ELSE Format02(rem \div 3600) \o <<":">> \o Format02((rem \div 60) % 60)
         \o <<":">> \o Format02(rem % 60)

\* C4: the body returns the single 'over' frame exactly when
\* quantizedNow > deadline + 3600; otherwise exactly 60 frames, frame i
\* carrying the text selected for remaining = deadline - quantizedNow - i.
C4_AnimationStructure ==
  BodyRan =>
    IF call.rounded_timestamp > call.end_timestamp + 3600
    THEN call.frames = <<[drawn |-> Over]>>
    ELSE /\ Len(call.frames) = 60
         /\ \A i \in 0..59 :
              call.frames[i + 1].drawn
                = ExpectedText(call.end_timestamp - call.rounded_timestamp - i, i)

\* both shapes at the boundary: one second past the hour gives the single
\* frame, exactly the hour gives 60 frames
C4_Witness ==
  /\ BodyRan
  /\ \/ /\ call.rounded_timestamp = call.end_timestamp + 3601
        /\ Len(call.frames) = 1
     \/ /\ call.rounded_timestamp = call.end_timestamp + 3600
        /\ Len(call.frames) = 60
        /\ call.frames[1].drawn = Started /\ call.frames[60].drawn = Over

\* C5: a countdown frame reads HH:MM:SS with HH = remaining div 3600
\* written in full (two digits at least, no leading zero beyond that),
\* MM and SS two digits within 0..59, and HH*3600 + MM*60 + SS = remaining.
C5_ClockFormat ==
  (BodyRan /\ SixtyFrames) =>
    \A i \in 0..54 :
      LET rem == Remaining(i)
          f   == Fields(call.frames[i + 1].drawn)
      IN  rem > 0 =>
            /\ IsClock(call.frames[i + 1].drawn)
            /\ Len(f[1]) >= 2 /\ Len(f[2]) = 2 /\ Len(f[3]) = 2
            /\ Len(f[1]) > 2 => f[1][1] # "0"
            /\ Value(f[1]) = rem \div 3600
            /\ Value(f[2]) \in 0..59 /\ Value(f[3]) \in 0..59
            /\ Value(f[2]) = (rem % 3600) \div 60
            /\ Value(f[1]) * 3600 + Value(f[2]) * 60 + Value(f[3]) = rem

\* a countdown of a hundred hours: three hour digits
C5_Witness ==
  /\ BodyRan /\ SixtyFrames
  /\ Remaining(0) = 360001
  /\ call.frames[1].drawn = <<"1","0","0",":","0","0",":","0","1">>
  /\ call.frames[3].drawn = <<"9","9",":","5","9",":","5","9">>

EnCta == LANG_TXT[En]["cta"]
EnStarted == LANG_TXT[En]["started"]
EnOver == LANG_TXT[En]["over"]

\* C9 as stated: with language 'en' and deadline = now + 3 s, the frame at
\* index 57 shows 'START BETTING'.
C9_Original ==
  (BodyRan /\ call.lang = En /\ Remaining(0) = 3) =>
    (Len(call.frames) = 60 /\ call.frames[58].drawn = EnCta)

\* C9 amended: with language 'en' and deadline = now + 3 s, the frame at
\* index 57 shows 'MATCH HAS STARTED' (the deadline passed 54 frames
\* earlier); it shows 'START BETTING' exactly when deadline >= now + 58 s.
C9_Frame57 ==
  (BodyRan /\ call.lang = En /\ SixtyFrames) =>
    /\ Remaining(0) = 3 => call.frames[58].drawn = EnStarted
    /\ (call.frames[58].drawn = EnCta) <=> (Remaining(0) >= 58)

C9_Witness ==
  /\ BodyRan /\ call.lang = En /\ Remaining(0) = 3
  /\ call.frames[58].drawn = EnStarted
  /\ call.frames[3].drawn = <<"0","0",":","0","0",":","0","1">>

(***************************************************************************)
(* Properties of the request handlers.                                     *)
(***************************************************************************)
\* the handler thread th takes a new request in this step
Receives(th) == nreq' = nreq + 1 /\ Accepts(th)

IsGif(r) == r.path = "/timer.gif"

\* the deadline of a request whose end parameter is one of the ISO texts
Deadline(r) == FromIsoFormat(ReplaceZ(r.end.s)).ms

ReadableEnd(r) == Truthy(r.end) /\ r.end.s \notin Unreadable

\* the start of the 60-second bucket of a wall-clock time, in seconds
BucketStart(nowMs) == 60 * (nowMs \div 60000)

Core == {"get_cache_key", "generate_gif_cached", "render_frame_cached",
         "get_timer_text", "render_timer_frame"}

\* C6 as stated: for requests without override, the body of
\* generate_gif_cached runs at most once per deadline, language and
\* 60-second bucket.
C6_Original ==
  [][\A th \in Threads :
       (pc[th] = "generate" /\ pc'[th] = "idle" /\ ~Truthy(req[th].t))
         => AskedFor(req[th]) \notin built]_vars

\* C6 amended: a request without override that arrives while the animation
\* cache holds the entry made by an earlier request without override for
\* the same deadline, language and 60-second bucket obtains that entry: it
\* is a cache hit, the response carries the entry's frames and the body of
\* generate_gif_cached does not run.  (A request that arrives before the
\* first has stored its entry, or after the entry was evicted, runs the
\* body again.)
C6_ServedFromFirstEntry ==
  [][\A th \in Threads :
       (/\ Receives(th)
        /\ IsGif(req'[th]) /\ ReadableEnd(req'[th]) /\ ~Truthy(req'[th].t)
        /\ \E j \in 1..Len(gifCache) : gifCache[j].by = AskedFor(req'[th]))
       => LET j == CHOOSE i \in 1..Len(gifCache) :
                     gifCache[i].by = AskedFor(req'[th])
          IN  /\ cacheKey'[th] = gifCache[j].key
              /\ resp'[th].status = 200 /\ resp'[th].hit
              /\ resp'[th].frames = gifCache[j].value
              /\ pc'[th] = "idle"
              /\ built' = built /\ badgeCache' = badgeCache]_vars

\* a request served from the entry an earlier request made at another time
\* of the same bucket
C6_Witness ==
  \E th \in Threads :
    /\ IsGif(req[th]) /\ ~Truthy(req[th].t) /\ resp[th].hit
    /\ \E j \in 1..Len(gifCache) :
         /\ gifCache[j].by = AskedFor(req[th])
         /\ gifCache[j].at # req[th].at
         /\ gifCache[j].value = resp[th].frames

\* C7: get_cache_key never fails and returns (deadline epoch seconds,
\* quantized timestamp, language): the deadline in whole seconds (the
\* fraction dropped), the override verbatim when it is an integer, else
\* the start of the current 60-second bucket.
C7_CacheKey ==
  \A th \in Threads :
    (IsGif(req[th]) /\ ReadableEnd(req[th])) =>
      LET r == req[th]
          k == cacheKey[th]
      IN  /\ Len(k) = 3
          /\ IF Deadline(r) >= 0
             THEN k[1] * 1000 <= Deadline(r) /\ Deadline(r) < (k[1] + 1) * 1000
             ELSE (k[1] - 1) * 1000 < Deadline(r) /\ Deadline(r) <= k[1] * 1000
          /\ r.t = Str(<<"7","2","0","0">>) => k[2] = 7200
          /\ r.t = Str(<<" ","7","_","2","6","0"," ">>) => k[2] = 7260
          /\ r.t = Str(<<"-","5">>) => k[2] = -5
          /\ r.t \in {None, Str(<<>>), Str(<<"a","b","c">>), Str(<<"1",".","5">>)}
               => k[2] = BucketStart(r.at)
          /\ k[3] = (IF r.lang = None THEN En ELSE Et)

\* an unparsable override at half past the minute falls back to the bucket
C7_Witness ==
  \E th \in Threads :
    /\ IsGif(req[th]) /\ ReadableEnd(req[th])
    /\ req[th].t = Str(<<"a","b","c">>)
    /\ req[th].at = 7230500
    /\ cacheKey[th][2] = 7200
    /\ resp[th].status = 200

\* the seconds a text HH:MM:SS stands for
ClockSeconds(text) ==
  LET f == Fields(text)
  IN  Value(f[1]) * 3600 + Value(f[2]) * 60 + Value(f[3])

\* a GIF request in English without override, answered
PlainEnglish(th) ==
  /\ IsGif(req[th]) /\ ReadableEnd(req[th]) /\ ~Truthy(req[th].t)
  /\ req[th].lang = None
  /\ resp[th].status = 200

\* C8 as stated: frame 0 shows '01:01:01' when deadline = now + 3661 s,
\* 'MATCH HAS STARTED' when deadline = now - 10 s, 'MATCH IS OVER' when
\* deadline = now - 3700 s.
C8_Original ==
  \A th \in Threads :
    PlainEnglish(th) =>
      LET off == Deadline(req[th]) - req[th].at
          f0  == resp[th].frames[1].drawn
      IN  /\ off = 3661000 => f0 = <<"0","1",":","0","1",":","0","1">>
          /\ off = -10000 => f0 = EnStarted
          /\ off = -3700000 => f0 = EnOver

\* C8 amended: frame 0 shows the text for remaining = deadline minus the
\* start of now's 60-second bucket.  With s the time of now past the start
\* of its bucket: deadline = now + 3661 s gives the countdown of 3661 + s
\* whole seconds, '01:01:01' only when s < 1 s; deadline = now - 10 s gives
\* 'MATCH HAS STARTED' when s < 11 s and the countdown of s - 10 whole
\* seconds otherwise; deadline = now - 3700 s gives 'MATCH IS OVER'.
C8_FrameZero ==
  \A th \in Threads :
    PlainEnglish(th) =>
      LET off == Deadline(req[th]) - req[th].at
          s   == req[th].at % 60000
          f0  == resp[th].frames[1].drawn
      IN  /\ off = 3661000 =>
               /\ IsClock(f0) /\ ClockSeconds(f0) = 3661 + s \div 1000
               /\ (f0 = <<"0","1",":","0","1",":","0","1">>) <=> (s < 1000)
          /\ off = -10000 =>
               IF s < 11000 THEN f0 = EnStarted
               ELSE IsClock(f0) /\ ClockSeconds(f0) = (s - 10000) \div 1000
          /\ off = -3700000 => (f0 = EnOver /\ Len(resp[th].frames) = 1)

\* half a minute into the bucket the countdown of now + 3661 s reads 01:01:31
C8_Witness ==
  \E th \in Threads :
    /\ PlainEnglish(th)
    /\ req[th].at = 7230500
    /\ Deadline(req[th]) = 7230500 + 3661000
    /\ resp[th].frames[1].drawn = <<"0","1",":","0","1",":","3","1">>

\* C10: a request without deadline ends in 'Missing end parameter', one
\* whose deadline does not parse in 'Invalid end parameter', both with
\* status 400, the handler thread idle again, no core function run and
\* both caches unchanged.
C10_RejectedBeforeRendering ==
  [][\A th \in Threads :
       (Receives(th) /\ ~ReadableEnd(req'[th])) =>
         /\ resp'[th].status = 400
         /\ resp'[th].text = (IF Truthy(req'[th].end)
                              THEN "Invalid end parameter"
                              ELSE "Missing 'end' parameter")
         /\ resp'[th].calls \cap Core = {}
         /\ resp'[th].frames = <<>>
         /\ pc'[th] = "idle"
         /\ gifCache' = gifCache /\ badgeCache' = badgeCache]_vars

\* an unparsable deadline rejected while both caches hold entries
C10_Witness ==
  \E th \in Threads :
    /\ Truthy(req[th].end) /\ req[th].end.s \in Unreadable
    /\ resp[th].status = 400 /\ resp[th].text = "Invalid end parameter"
    /\ gifCache # <<>> /\ badgeCache # <<>>

\* the request of thread th has been answered
Answered(th) == pc[th] = "idle" /\ resp[th].status # 0

\* C11 as stated: every GIF or PNG request whose deadline string parses
\* succeeds with an image, whatever the time override and whether or not
\* the deadline carries a UTC offset; every other request reports the
\* missing or invalid deadline with status 400.
C11_Original ==
  \A th \in Threads :
    Answered(th) =>
      IF ReadableEnd(req[th])
      THEN resp[th].status = 200 /\ resp[th].frames # <<>>
      ELSE resp[th].status = 400

(***************************************************************************)
(* Properties of the two caches.                                           *)
(***************************************************************************)
\* the cache keys the workload of Spec asks for: the one deadline, the
\* bucket the clock is in after any number of steps or the overridden one,
\* either language
WorkloadKeys ==
  {<<7203, rounded, lang>> :
     rounded \in {7200 + 60 * n : n \in 0..MaxTicks} \cup {7260},
     lang \in SUPPORTED_LANG_TXT}

\* what the body of generate_gif_cached computes for a key when every
\* badge is rendered afresh
Computed ==
  [k \in WorkloadKeys |->
     LET texts == FrameTexts(k[1], k[2], k[3])
     IN  [j \in 1..Len(texts) |-> render_timer_frame(texts[j], k[3])]]

\* C12: whatever requests came before, a badge cache entry holds exactly
\* what render_timer_frame computes for its (lang, text), an animation
\* cache entry holds exactly what the body computes for its key from
\* freshly rendered badges, and every GIF response, hit or miss, carries
\* exactly that value for its key.
C12_CacheTransparent ==
  /\ \A j \in 1..Len(badgeCache) :
       badgeCache[j].value
         = render_timer_frame(badgeCache[j].key[2], badgeCache[j].key[1])
  /\ \A j \in 1..Len(gifCache) :
       /\ gifCache[j].key \in WorkloadKeys
       /\ gifCache[j].value = Computed[gifCache[j].key]
  /\ \A th \in Threads :
       (IsGif(req[th]) /\ resp[th].status = 200)
         => resp[th].frames = Computed[cacheKey[th]]

\* one handler thread alone: its last request missed on a key whose entry
\* had been built before and was evicted since, and the recomputed
\* animation is the one computed from fresh badges
C12_Witness ==
  /\ req["b"] = NoRequest /\ pc["a"] = "idle"
  /\ IsGif(req["a"]) /\ resp["a"].status = 200 /\ ~resp["a"].hit
  /\ [again |-> AskedFor(req["a"])] \in built
  /\ resp["a"].frames = Computed[cacheKey["a"]]
  /\ Len(resp["a"].frames) = 60

Keys(cache) == [j \in 1..Len(cache) |-> cache[j].key]

NoDuplicates(cache) ==
  \A i, j \in 1..Len(cache) : cache[i].key = cache[j].key => i = j

RECURSIVE LastUses(_)
\* the keys of a sequence of uses, each once, in the order of its last use
LastUses(uses) ==
  IF uses = <<>> THEN <<>>
  ELSE LET k == uses[Len(uses)]
           Other(x) == x # k
       IN  LastUses(SelectSeq(SubSeq(uses, 1, Len(uses) - 1), Other)) \o <<k>>

\* the n most recently used keys, least recently used first
Recent(uses, n) ==
  LET u == LastUses(uses)
  IN  IF Len(u) <= n THEN u ELSE SubSeq(u, Len(u) - n + 1, Len(u))

\* the badge cache keys a body run by thread th used, in order (its
\* response's frames)
BadgesUsed(th) ==
  [j \in 1..Len(resp'[th].frames) |->
     <<cacheKey[th][3], resp'[th].frames[j].drawn>>]

CachesBounded ==
  /\ Len(gifCache) <= GifCacheMax /\ NoDuplicates(gifCache)
  /\ Len(badgeCache) <= BadgeCacheMax /\ NoDuplicates(badgeCache)

StateFor(rem) ==
  IF rem < -3600 THEN "over" ELSE IF rem <= 0 THEN "started" ELSE "running"

\* the display state a text of language lang shows
StateOf(text, lang) ==
  IF text = t(lang, "over") THEN "over"
  ELSE IF text = t(lang, "started") THEN "started" ELSE "running"

\* floor((deadline - instant) / 1 s), both in milliseconds
FloorSeconds(deadlineMs, instantMs) == (deadlineMs - instantMs) \div 1000

\* C14 as stated: the remaining value behind every text is
\* floor(deadline - instant): a PNG shows the state of floor(deadline - now),
\* frame i of a GIF the state of floor(deadline - (quantized now + i s)).
C14_Original ==
  \A th \in Threads :
    (Answered(th) /\ resp[th].status = 200) =>
      LET r    == req[th]
          lang == pick_lang(r.lang, r.best)
      IN  IF IsGif(r)
          THEN \A i \in 0..(Len(resp[th].frames) - 1) :
                 Len(resp[th].frames) = 60 =>
                   StateOf(resp[th].frames[i + 1].drawn, lang)
                     = StateFor(FloorSeconds(Deadline(r),
                                             (cacheKey[th][2] + i) * 1000))
          ELSE StateOf(resp[th].frames[1].drawn, lang)
                 = StateFor(FloorSeconds(Deadline(r), r.at))

(***************************************************************************)
(* Properties relating the code paths.                                     *)
(***************************************************************************)
\* C15: whenever the body returns the single 'over' frame, the 60-frame
\* loop run on the same arguments selects the 'over' text for every one of
\* its 60 frames.
C15_SingleFramePreservesContent ==
  (BodyRan /\ LoopRan /\ Len(call.frames) = 1) =>
    /\ call.frames[1].drawn = Over
    /\ Len(call.loop) = 60
    /\ \A i \in 0..59 : call.loop[i + 1] = Over

\* the first instant of the early branch: one second past the hour
C15_Witness ==
  /\ BodyRan /\ LoopRan
  /\ call.rounded_timestamp = call.end_timestamp + 3601
  /\ Len(call.frames) = 1
  /\ call.loop[1] = Over /\ call.loop[60] = Over

\* C16: for the same deadline and instant get_timer_text and the loop
\* agree on the display state: 'started' for -3600 <= remaining <= 0,
\* 'over' for remaining < -3600; for remaining > 0 get_timer_text never
\* gives the call to action; in gif mode it gives the HH:MM:SS text the
\* loop shows at a frame below index 55; in png mode it gives HH:MM with
\* HH = remaining div 3600 and MM = (remaining div 60) mod 60.
C16_TextSelectionsAgree ==
  (call.text # <<>> /\ call.shown # <<>>) =>
    LET rem == call.end_timestamp - (call.rounded_timestamp + call.i)
        f   == Fields(call.text)
    IN  /\ rem < -3600 => (call.text = Over /\ call.shown = Over)
        /\ (-3600 <= rem /\ rem <= 0)
             => (call.text = Started /\ call.shown = Started)
        /\ rem > 0 =>
             /\ call.text \notin {Cta, Started, Over}
             /\ (call.shown = Cta) <=> (call.i >= 55)
             /\ (call.mode = "gif" /\ call.i < 55) => call.text = call.shown
             /\ call.mode = "gif" =>
                  (IsClock(call.text) /\ ClockSeconds(call.text) = rem)
             /\ call.mode = "png" =>
                  /\ Len(f) = 2 /\ IsDigits(f[1]) /\ IsDigits(f[2])
                  /\ Len(f[1]) >= 2 /\ Len(f[2]) = 2
                  /\ Value(f[1]) = rem \div 3600
                  /\ Value(f[2]) = (rem \div 60) % 60

\* png mode at 3661 seconds before the deadline: '01:01', where the loop
\* shows '01:01:01'
C16_Witness ==
  /\ call.mode = "png" /\ call.i = 0
  /\ call.end_timestamp - call.rounded_timestamp = 3661
  /\ call.text = <<"0","1",":","0","1">>
  /\ call.shown = <<"0","1",":","0","1",":","0","1">>

\* the place of a frame text in countdown -> call to action -> started -> over
Rank(text) ==
  IF text = Over THEN 3
  ELSE IF text = Started THEN 2
  ELSE IF text = Cta THEN 1
  ELSE 0

\* C17: within one 60-frame animation the display state never moves back:
\* a later frame is never at an earlier place of countdown -> call to
\* action -> started -> over than an earlier frame, and every frame that
\* is none of the three texts is a countdown.
C17_StateMovesForward ==
  (BodyRan /\ SixtyFrames) =>
    /\ \A i \in 1..59 :
         Rank(call.frames[i].drawn) <= Rank(call.frames[i + 1].drawn)
    /\ \A i \in 1..60 :
         Rank(call.frames[i].drawn) = 0 => IsClock(call.frames[i].drawn)

\* an animation that goes through countdown, call to action and started
C17_Witness ==
  /\ BodyRan /\ SixtyFrames
  /\ Remaining(0) = 57
  /\ IsClock(call.frames[55].drawn)
  /\ call.frames[56].drawn = Cta /\ call.frames[57].drawn = Cta
  /\ call.frames[58].drawn = Started /\ call.frames[60].drawn = Started

(***************************************************************************)
(* Properties of the quantized time.                                       *)
(***************************************************************************)
\* a GIF request without override, answered with an animation
NoOverride(th) ==
  /\ IsGif(req[th]) /\ ReadableEnd(req[th]) /\ ~Truthy(req[th].t)
  /\ Answered(th) /\ resp[th].status = 200

\* the remaining value of frame 0, in seconds: deadline epoch seconds
\* minus quantized timestamp of the cache key
FrameZeroRemaining(th) == cacheKey[th][1] - cacheKey[th][2]

\* the true remaining time at the request, in milliseconds
TrueRemaining(th) == Deadline(req[th]) - req[th].at

\* C18 as stated: without override the quantized timestamp is a multiple
\* of 60 with quantized <= now < quantized + 60, and the remaining time of
\* frame 0 is never less than the true remaining time at the request and
\* exceeds it by less than 60 seconds.
C18_Original ==
  \A th \in Threads :
    NoOverride(th) =>
      LET q == cacheKey[th][2]
      IN  /\ q % 60 = 0
          /\ q * 1000 <= req[th].at /\ req[th].at < (q + 60) * 1000
          /\ FrameZeroRemaining(th) * 1000 >= TrueRemaining(th)
          /\ FrameZeroRemaining(th) * 1000 - TrueRemaining(th) < 60000

\* C18 amended: without override the quantized timestamp is a multiple of
\* 60 with quantized <= now < quantized + 60; the remaining time of frame 0
\* is the whole seconds of the deadline minus the quantized timestamp: it
\* is never less than the true remaining time when the deadline is a whole
\* second, and less by under one second otherwise; it exceeds the true
\* remaining time by less than 60 seconds for deadlines at or after the
\* epoch, and by less than 61 seconds in every case; a countdown in frame
\* 0 shows exactly this value.
C18_FrameZeroWithinBucket ==
  \A th \in Threads :
    NoOverride(th) =>
      LET q    == cacheKey[th][2]
          rem0 == FrameZeroRemaining(th)
          f0   == resp[th].frames[1].drawn
      IN  /\ q % 60 = 0
          /\ q * 1000 <= req[th].at /\ req[th].at < (q + 60) * 1000
          /\ rem0 * 1000 > TrueRemaining(th) - 1000
          /\ Deadline(req[th]) % 1000 = 0 => rem0 * 1000 >= TrueRemaining(th)
          /\ rem0 * 1000 - TrueRemaining(th) < 61000
          /\ Deadline(req[th]) >= 0 => rem0 * 1000 - TrueRemaining(th) < 60000
          /\ IsClock(f0) => ClockSeconds(f0) = rem0

\* at the start of a bucket a deadline 3661.5 s away: frame 0 shows
\* 01:01:01, half a second less than the true remaining time
C18_Witness ==
  \E th \in Threads :
    /\ NoOverride(th)
    /\ req[th].at % 60000 = 0
    /\ TrueRemaining(th) = 3661500
    /\ resp[th].frames[1].drawn = <<"0","1",":","0","1",":","0","1">>

(***************************************************************************)
(* Properties of the languages.                                            *)
(***************************************************************************)
\* the three localized strings of a language
LangTexts(lang) ==
  {LANG_TXT[lang]["cta"], LANG_TXT[lang]["started"], LANG_TXT[lang]["over"]}

\* every frame shows a string of the language or a countdown
InLanguage(frames, lang) ==
  \A j \in 1..Len(frames) :
    frames[j].drawn \in LangTexts(lang) \/ IsClock(frames[j].drawn)

\* C19: a GIF request resolved to language L receives an animation made
\* under a key of language L in which every text is one of L's three
\* strings or a countdown; every animation cache entry holds texts of its
\* key's language only, and every badge cache entry the text of its key,
\* under its key's language.
C19_LanguagesNeverMix ==
  /\ \A th \in Threads :
       (IsGif(req[th]) /\ resp[th].status = 200) =>
         LET lang == IF req[th].lang = None THEN En ELSE Et
         IN  /\ cacheKey[th][3] = lang
             /\ InLanguage(resp[th].frames, lang)
  /\ \A j \in 1..Len(gifCache) :
       InLanguage(gifCache[j].value, gifCache[j].key[3])
  /\ \A j \in 1..Len(badgeCache) :
       /\ badgeCache[j].value.drawn = badgeCache[j].key[2]
       /\ InLanguage(<<badgeCache[j].value>>, badgeCache[j].key[1])

\* an Estonian request answered with Estonian texts while the English
\* animation for the same deadline and bucket, cached first, is still held
C19_Witness ==
  \E th \in Threads :
    /\ IsGif(req[th]) /\ resp[th].status = 200 /\ req[th].lang # None
    /\ Len(gifCache) = 2
    /\ gifCache[1].key = <<cacheKey[th][1], cacheKey[th][2], En>>
    /\ gifCache[2].key = <<cacheKey[th][1], cacheKey[th][2], Et>>
    /\ resp[th].frames[60].drawn = LANG_TXT[Et]["started"]
    /\ gifCache[1].value[60].drawn = LANG_TXT[En]["started"]

\* the supported tag a lang parameter names, in any spelling of case and
\* surrounding blanks; <<>> when it names none
TagNamed(p) ==
  IF p \in {Str(En), Str(<<" ","E","n">>)} THEN En
  ELSE IF p \in {Str(Et), Str(<<"E","T"," ">>)} THEN Et
  ELSE <<>>

\* the language the claim selects
LanguageSelected(p, best) ==
  IF TagNamed(p) # <<>> THEN TagNamed(p)
  ELSE IF best # None THEN best.s
  ELSE En

====
